---- MODULE Spec2Model ----
(***************************************************************************)
(* Model of the PvpMatchFHE coordinator contract                           *)
(* (src/frontend/web/src/App.tsx, lines 642-876).                          *)
(*                                                                         *)
(* One action per external function of the contract.  A call that reverts  *)
(* leaves every contract variable unchanged.  Calls are serialized: the   *)
(* outcome of a call (the error it reverted with, or the event it         *)
(* emitted) is held in `last` until the call returns.                      *)
(* block.timestamp is the variable `now`, advanced by Tick.  The           *)
(* decryption oracle hands out request ids from a counter and decides, per *)
(* callback, whether the signatures of the proof check out.                *)
(***************************************************************************)
EXTENDS Integers, Sequences, FiniteSets, TLC

(* ------------------------------ bounds -------------------------------- *)
MaxBatch == 2
MaxReq == 2
MaxTime == 20

(* ------------------------- program constants -------------------------- *)
MIN_COOLDOWN_SECONDS == 10
DefaultCooldownSeconds == 30

(* ------------------------------ inputs -------------------------------- *)
Owner == "owner"
Prov == "prov"
ZeroAddress == "0x0"
This == "PvpMatchFHE"
Callers == {Owner, Prov}
Candidates == {Prov}
Players == {"A", "B"}
Scores == {0, 5}
SubmitInputs == {<<"A", 0>>, <<"A", 5>>, <<"B", 5>>}
Pairings == {<<"A", "B">>, <<"A", "A">>, <<"B", "B">>}
NewCooldowns == {MIN_COOLDOWN_SECONDS - 5, MIN_COOLDOWN_SECONDS}
Cleartexts == {0, 5}
TickStep == MIN_COOLDOWN_SECONDS
RequestIds == 1..MaxReq
BatchIds == 0..(MaxBatch + 1)

VARIABLES
    paused,
    cooldownSeconds,
    currentBatchId,
    batchOpen,
    isProvider,
    lastSubmissionTimestamp,
    lastRequestTimestamp,
    batchSubmissions,
    matchRequests,
    decryptionContexts,
    fheInitialized,
    nextRequestId,
    now,
    completions,
    last

contractVars ==
    <<paused, cooldownSeconds, currentBatchId, batchOpen, isProvider,
      lastSubmissionTimestamp, lastRequestTimestamp, batchSubmissions,
      matchRequests, decryptionContexts, fheInitialized, nextRequestId,
      completions>>

vars == <<contractVars, now, last>>

(* ------------------- encrypted-arithmetic engine ---------------------- *)
(* A handle is an opaque reference: the engine derives the handle of a     *)
(* result from the operation and the handles of its operands.              *)
ZeroHandle == [op |-> "none", val |-> 0, args |-> <<>>]

asEuint32(v) == [op |-> "trivial", val |-> v, args |-> <<>>]

isZero(h) == h = ZeroHandle

FHEsub(a, b) == [op |-> "sub", val |-> 0, args |-> <<a, b>>]

FHEge(a, b) == [op |-> "ge", val |-> 0, args |-> <<a, b>>]

FHEselect(c, a, b) == [op |-> "select", val |-> 0, args |-> <<c, a, b>>]

toBytes32(h) == h

toUint32(h) == h.val

(* diff.ge(0).select(diff, 0 - diff), as findMatch and myCallback build it *)
AbsDiff(s1, s2) ==
    LET diff == FHEsub(s1, s2)
    IN  FHEselect(FHEge(diff, asEuint32(0)), diff, FHEsub(asEuint32(0), diff))

ZeroHash == [cts |-> <<>>, domain |-> ZeroAddress]

_hashCiphertexts_DomainOnly(cts) == [cts |-> <<>>, domain |-> This]

_hashCiphertexts(cts) == [cts |-> cts, domain |-> This]

(* ------------------------- storage defaults --------------------------- *)
EmptySubmission == [encryptedScore |-> ZeroHandle, submissionTimestamp |-> 0]

EmptyMatchRequest ==
    [player1 |-> ZeroAddress, player2 |-> ZeroAddress,
     encryptedScore1 |-> ZeroHandle, encryptedScore2 |-> ZeroHandle,
     requestTimestamp |-> 0]

EmptyContext == [batchId |-> 0, stateHash |-> ZeroHash, processed |-> FALSE]

NoEvent == [name |-> "none", params |-> <<>>]

Idle == [op |-> "idle", caller |-> ZeroAddress, args |-> <<>>, err |-> "ok",
         event |-> NoEvent]

Event(name, params) == [name |-> name, params |-> params]

Outcome(op, caller, args, err, event) ==
    [op |-> op, caller |-> caller, args |-> args, err |-> err, event |-> event]

Init ==
    /\ paused = FALSE
    /\ cooldownSeconds = DefaultCooldownSeconds
    /\ currentBatchId = 0
    /\ batchOpen = FALSE
    /\ isProvider = [c \in Callers |-> c = Owner]
    /\ lastSubmissionTimestamp = [p \in Players |-> 0]
    /\ lastRequestTimestamp = [p \in Players |-> 0]
    /\ batchSubmissions = [b \in BatchIds |-> [p \in Players |-> EmptySubmission]]
    /\ matchRequests = [r \in RequestIds |-> EmptyMatchRequest]
    /\ decryptionContexts = [r \in RequestIds |-> EmptyContext]
    /\ fheInitialized = FALSE
    /\ nextRequestId = 1
    /\ now = 0
    /\ completions = [r \in RequestIds |-> 0]
    /\ last = Outcome("constructor", Owner, <<>>, "ok", Event("ProviderAdded", <<Owner>>))

(* ---------------------------- modifiers ------------------------------- *)
onlyOwner_AnyProvider(caller) == IF ~isProvider[caller] THEN "NotOwner" ELSE "ok"

onlyOwner(caller) == IF caller # Owner THEN "NotOwner" ELSE "ok"

onlyProvider_Open(caller) == "ok"

onlyProvider(caller) == IF ~isProvider[caller] THEN "NotProvider" ELSE "ok"

whenNotPaused == IF paused THEN "Paused" ELSE "ok"

checkSubmissionCooldown_RequestClock(player) ==
    IF now < lastRequestTimestamp[player] + cooldownSeconds
    THEN "CooldownActive" ELSE "ok"

checkSubmissionCooldown_PerBatch(player) ==
    IF now < batchSubmissions[currentBatchId][player].submissionTimestamp
                 + cooldownSeconds
    THEN "CooldownActive" ELSE "ok"

checkSubmissionCooldown(player) ==
    IF now < lastSubmissionTimestamp[player] + cooldownSeconds
    THEN "CooldownActive" ELSE "ok"

checkRequestCooldown_FirstIsFree(player) ==
    IF /\ lastRequestTimestamp[player] # 0
       /\ now < lastRequestTimestamp[player] + cooldownSeconds
    THEN "CooldownActive" ELSE "ok"

checkRequestCooldown(player) ==
    IF now < lastRequestTimestamp[player] + cooldownSeconds
    THEN "CooldownActive" ELSE "ok"

FirstError_LastFailing(checks) ==
    LET failing == {i \in DOMAIN checks : checks[i] # "ok"}
    IN  IF failing = {} THEN "ok"
        ELSE checks[CHOOSE i \in failing : \A j \in failing : j <= i]

(* The first error of a sequence of checks, "ok" when all pass. *)
RECURSIVE FirstError(_)
FirstError(checks) ==
    IF checks = <<>> THEN "ok"
    ELSE IF Head(checks) # "ok" THEN Head(checks)
    ELSE FirstError(Tail(checks))

Reverted(op, caller, args, err) ==
    /\ UNCHANGED contractVars
    /\ last' = Outcome(op, caller, args, err, NoEvent)

(* --------------------------- administration --------------------------- *)
addProvider(caller, provider) ==
    LET err == onlyOwner(caller)
    IN  IF err # "ok" THEN Reverted("addProvider", caller, <<provider>>, err)
        ELSE /\ isProvider' = [isProvider EXCEPT ![provider] = TRUE]
             /\ last' = Outcome("addProvider", caller, <<provider>>, "ok",
                           IF ~isProvider[provider]
                           THEN Event("ProviderAdded", <<provider>>) ELSE NoEvent)
             /\ UNCHANGED <<paused, cooldownSeconds, currentBatchId, batchOpen,
                            lastSubmissionTimestamp, lastRequestTimestamp,
                            batchSubmissions, matchRequests, decryptionContexts,
                            fheInitialized, nextRequestId, completions>>

removeProvider(caller, provider) ==
    LET err == onlyOwner(caller)
    IN  IF err # "ok" THEN Reverted("removeProvider", caller, <<provider>>, err)
        ELSE /\ isProvider' = [isProvider EXCEPT ![provider] = FALSE]
             /\ last' = Outcome("removeProvider", caller, <<provider>>, "ok",
                           IF isProvider[provider]
                           THEN Event("ProviderRemoved", <<provider>>) ELSE NoEvent)
             /\ UNCHANGED <<paused, cooldownSeconds, currentBatchId, batchOpen,
                            lastSubmissionTimestamp, lastRequestTimestamp,
                            batchSubmissions, matchRequests, decryptionContexts,
                            fheInitialized, nextRequestId, completions>>

pause(caller) ==
    LET err == FirstError(<<onlyOwner(caller), whenNotPaused>>)
    IN  IF err # "ok" THEN Reverted("pause", caller, <<>>, err)
        ELSE /\ paused' = TRUE
             /\ last' = Outcome("pause", caller, <<>>, "ok", Event("Paused", <<caller>>))
             /\ UNCHANGED <<cooldownSeconds, currentBatchId, batchOpen, isProvider,
                            lastSubmissionTimestamp, lastRequestTimestamp,
                            batchSubmissions, matchRequests, decryptionContexts,
                            fheInitialized, nextRequestId, completions>>

unpause(caller) ==
    LET err == onlyOwner(caller)
    IN  IF err # "ok" THEN Reverted("unpause", caller, <<>>, err)
        ELSE /\ paused' = FALSE
             /\ last' = Outcome("unpause", caller, <<>>, "ok", Event("Unpaused", <<caller>>))
             /\ UNCHANGED <<cooldownSeconds, currentBatchId, batchOpen, isProvider,
                            lastSubmissionTimestamp, lastRequestTimestamp,
                            batchSubmissions, matchRequests, decryptionContexts,
                            fheInitialized, nextRequestId, completions>>

CooldownBoundCheck_ZeroOnly(newCooldownSeconds) ==
    IF newCooldownSeconds = 0 THEN "InvalidCooldown" ELSE "ok"

CooldownBoundCheck(newCooldownSeconds) ==
    IF newCooldownSeconds < MIN_COOLDOWN_SECONDS THEN "InvalidCooldown" ELSE "ok"

setCooldownSeconds(caller, newCooldownSeconds) ==
    LET err == FirstError(<<onlyOwner(caller),
                            CooldownBoundCheck(newCooldownSeconds)>>)
    IN  IF err # "ok"
        THEN Reverted("setCooldownSeconds", caller, <<newCooldownSeconds>>, err)
        ELSE /\ cooldownSeconds' = newCooldownSeconds
             /\ last' = Outcome("setCooldownSeconds", caller, <<newCooldownSeconds>>, "ok",
                           Event("CooldownSet", <<cooldownSeconds, newCooldownSeconds>>))
             /\ UNCHANGED <<paused, currentBatchId, batchOpen, isProvider,
                            lastSubmissionTimestamp, lastRequestTimestamp,
                            batchSubmissions, matchRequests, decryptionContexts,
                            fheInitialized, nextRequestId, completions>>

(* --------------------------- batch registry --------------------------- *)
IncrementedBatchId_Unchanged == currentBatchId

IncrementedBatchId == currentBatchId + 1

openBatch(caller) ==
    LET err == FirstError(<<onlyOwner(caller), whenNotPaused,
                            IF batchOpen THEN "BatchNotOpen" ELSE "ok">>)
    IN  IF err # "ok" THEN Reverted("openBatch", caller, <<>>, err)
        ELSE /\ currentBatchId < MaxBatch
             /\ currentBatchId' = IncrementedBatchId
             /\ batchOpen' = TRUE
             /\ last' = Outcome("openBatch", caller, <<>>, "ok",
                           Event("BatchOpened", <<IncrementedBatchId>>))
             /\ UNCHANGED <<paused, cooldownSeconds, isProvider,
                            lastSubmissionTimestamp, lastRequestTimestamp,
                            batchSubmissions, matchRequests, decryptionContexts,
                            fheInitialized, nextRequestId, completions>>

closeBatch(caller) ==
    LET err == FirstError(<<onlyOwner(caller), whenNotPaused,
                            IF ~batchOpen THEN "BatchClosed" ELSE "ok">>)
    IN  IF err # "ok" THEN Reverted("closeBatch", caller, <<>>, err)
        ELSE /\ batchOpen' = FALSE
             /\ last' = Outcome("closeBatch", caller, <<>>, "ok",
                           Event("BatchClosed", <<currentBatchId>>))
             /\ UNCHANGED <<paused, cooldownSeconds, currentBatchId, isProvider,
                            lastSubmissionTimestamp, lastRequestTimestamp,
                            batchSubmissions, matchRequests, decryptionContexts,
                            fheInitialized, nextRequestId, completions>>

(* -------------------------- submission ledger ------------------------- *)
BatchOpenCheck_Skipped == "ok"

BatchOpenCheck_Inverted == IF batchOpen THEN "BatchClosed" ELSE "ok"

BatchOpenCheck == IF ~batchOpen THEN "BatchClosed" ELSE "ok"

StoredSubmission_SetOnce(player, encryptedScore) ==
    IF isZero(batchSubmissions[currentBatchId][player].encryptedScore)
    THEN [encryptedScore |-> encryptedScore, submissionTimestamp |-> now]
    ELSE batchSubmissions[currentBatchId][player]

StoredSubmission(player, encryptedScore) ==
    [encryptedScore |-> encryptedScore, submissionTimestamp |-> now]

submitPlayerScore(caller, player, score) ==
    LET err == FirstError(<<onlyProvider(caller), whenNotPaused,
                            checkSubmissionCooldown(player), BatchOpenCheck>>)
        encryptedScore == asEuint32(score)
    IN  IF err # "ok"
        THEN Reverted("submitPlayerScore", caller, <<player, score>>, err)
        ELSE /\ fheInitialized' = TRUE
             /\ batchSubmissions' =
                    [batchSubmissions EXCEPT ![currentBatchId][player] =
                        StoredSubmission(player, encryptedScore)]
             /\ lastSubmissionTimestamp' =
                    [lastSubmissionTimestamp EXCEPT ![player] = now]
             /\ last' = Outcome("submitPlayerScore", caller, <<player, score>>, "ok",
                           Event("PlayerScoreSubmitted",
                                 <<player, currentBatchId, toBytes32(encryptedScore)>>))
             /\ UNCHANGED <<paused, cooldownSeconds, currentBatchId, batchOpen,
                            isProvider, lastRequestTimestamp, matchRequests,
                            decryptionContexts, nextRequestId, completions>>

(* ------------------------ match request tracker ----------------------- *)
PairingCheck_NoDistinctCheck(player1, player2) ==
    IF \/ isZero(batchSubmissions[currentBatchId][player1].encryptedScore)
       \/ isZero(batchSubmissions[currentBatchId][player2].encryptedScore)
    THEN "InvalidSubmission"
    ELSE "ok"

PairingCheck_AnyBatch(player1, player2) ==
    IF player1 = player2 THEN "InvalidSubmission"
    ELSE IF \E p \in {player1, player2} :
                \A b \in BatchIds : isZero(batchSubmissions[b][p].encryptedScore)
    THEN "InvalidSubmission"
    ELSE "ok"

PairingCheck(player1, player2) ==
    IF player1 = player2 THEN "InvalidSubmission"
    ELSE IF \/ isZero(batchSubmissions[currentBatchId][player1].encryptedScore)
            \/ isZero(batchSubmissions[currentBatchId][player2].encryptedScore)
    THEN "InvalidSubmission"
    ELSE "ok"

requestDecryption_Reissued ==
    IF nextRequestId > 1 THEN nextRequestId - 1 ELSE nextRequestId

(* The oracle hands out a fresh request id for every decryption request. *)
requestDecryption == nextRequestId

StampedRequestClock_BothPlayers(player1, player2) ==
    [lastRequestTimestamp EXCEPT ![player1] = now, ![player2] = now]

StampedRequestClock(player1, player2) ==
    [lastRequestTimestamp EXCEPT ![player1] = now]

NewContext_Finalized(stateHash) ==
    [batchId |-> currentBatchId, stateHash |-> stateHash, processed |-> TRUE]

NewContext(stateHash) ==
    [batchId |-> currentBatchId, stateHash |-> stateHash, processed |-> FALSE]

findMatch(caller, player1, player2) ==
    LET err == FirstError(<<onlyProvider(caller), whenNotPaused,
                            checkRequestCooldown(player1),
                            PairingCheck(player1, player2)>>)
        sub1 == batchSubmissions[currentBatchId][player1]
        sub2 == batchSubmissions[currentBatchId][player2]
        cts == <<toBytes32(AbsDiff(sub1.encryptedScore, sub2.encryptedScore))>>
        stateHash == _hashCiphertexts(cts)
        requestId == requestDecryption
    IN  IF err # "ok"
        THEN Reverted("findMatch", caller, <<player1, player2>>, err)
        ELSE /\ requestId <= MaxReq
             /\ nextRequestId' = nextRequestId + 1
             /\ matchRequests' =
                    [matchRequests EXCEPT ![requestId] =
                        [player1 |-> player1, player2 |-> player2,
                         encryptedScore1 |-> sub1.encryptedScore,
                         encryptedScore2 |-> sub2.encryptedScore,
                         requestTimestamp |-> now]]
             /\ decryptionContexts' =
                    [decryptionContexts EXCEPT ![requestId] = NewContext(stateHash)]
             /\ lastRequestTimestamp' = StampedRequestClock(player1, player2)
             /\ last' = Outcome("findMatch", caller, <<player1, player2>>, "ok",
                           Event("MatchmakingRequested",
                                 <<requestId, currentBatchId, stateHash>>))
             /\ UNCHANGED <<paused, cooldownSeconds, currentBatchId, batchOpen,
                            isProvider, lastSubmissionTimestamp, batchSubmissions,
                            fheInitialized, completions>>

(* ------------------- commitment verifier / finalization --------------- *)
ReplayCheck_NoGuard(requestId) == "ok"

ReplayCheck_AnyProcessed(requestId) ==
    IF \E r \in RequestIds : decryptionContexts[r].processed
    THEN "ReplayDetected" ELSE "ok"

ReplayCheck(requestId) ==
    IF decryptionContexts[requestId].processed THEN "ReplayDetected" ELSE "ok"

RebuiltCiphertexts_FromLedger(request) ==
    LET current(p) == IF p \in Players
                      THEN batchSubmissions[currentBatchId][p].encryptedScore
                      ELSE ZeroHandle
    IN  <<toBytes32(AbsDiff(current(request.player1), current(request.player2)))>>

(* The ciphertext list rebuilt from a stored MatchRequest. *)
RebuiltCiphertexts(request) ==
    <<toBytes32(AbsDiff(request.encryptedScore1, request.encryptedScore2))>>

CommitmentCheck_Skipped(request, context) == "ok"

CommitmentCheck_UnsetPasses(request, context) ==
    IF context.stateHash = ZeroHash THEN "ok"
    ELSE IF _hashCiphertexts(RebuiltCiphertexts(request)) # context.stateHash
    THEN "StateMismatch" ELSE "ok"

(* The commitment comparison, for a stored request and its context. *)
CommitmentCheck(request, context) ==
    IF _hashCiphertexts(RebuiltCiphertexts(request)) # context.stateHash
    THEN "StateMismatch" ELSE "ok"

StateCheck(requestId) ==
    CommitmentCheck(matchRequests[requestId], decryptionContexts[requestId])

ProofCheck_Accepting(signaturesOk) == "ok"

ProofCheck_Inverted(signaturesOk) == IF signaturesOk THEN "InvalidProof" ELSE "ok"

(* FHE.checkSignatures: the oracle's verdict on (requestId, cleartexts, proof) *)
ProofCheck(signaturesOk) == IF ~signaturesOk THEN "InvalidProof" ELSE "ok"

(* What myCallback reverts with in the current state, "ok" if it finalizes. *)
CallbackError(requestId, signaturesOk) ==
    FirstError(<<ReplayCheck(requestId), StateCheck(requestId),
                 ProofCheck(signaturesOk)>>)

CompletedNotification_CurrentBatch(requestId, request, context) ==
    Event("MatchmakingCompleted",
          <<requestId, currentBatchId, request.player1, request.player2,
            toUint32(request.encryptedScore1),
            toUint32(request.encryptedScore2)>>)

(* The MatchmakingCompleted event as the callback assembles it from the   *)
(* stored request and context.                                            *)
CompletedNotification(requestId, request, context) ==
    Event("MatchmakingCompleted",
          <<requestId, context.batchId, request.player1, request.player2,
            toUint32(request.encryptedScore1),
            toUint32(request.encryptedScore2)>>)

CallbackGate_ProviderOnly(caller) == onlyProvider(caller)

(* myCallback is public and carries no modifier: any caller is admitted. *)
CallbackGate(caller) == "ok"

myCallback(caller, requestId, cleartexts, signaturesOk) ==
    LET err == FirstError(<<CallbackGate(caller),
                            CallbackError(requestId, signaturesOk)>>)
    IN  IF err # "ok"
        THEN Reverted("myCallback", caller, <<requestId, cleartexts, signaturesOk>>, err)
        ELSE /\ decryptionContexts' =
                    [decryptionContexts EXCEPT ![requestId].processed = TRUE]
             /\ completions' = [completions EXCEPT ![requestId] = @ + 1]
             /\ last' = Outcome("myCallback", caller,
                           <<requestId, cleartexts, signaturesOk>>, "ok",
                           CompletedNotification(requestId,
                                                 matchRequests[requestId],
                                                 decryptionContexts[requestId]))
             /\ UNCHANGED <<paused, cooldownSeconds, currentBatchId, batchOpen,
                            isProvider, lastSubmissionTimestamp, lastRequestTimestamp,
                            batchSubmissions, matchRequests, fheInitialized,
                            nextRequestId>>

(* ------------------------------- time --------------------------------- *)
Tick ==
    /\ last = Idle
    /\ now + TickStep <= MaxTime
    /\ now' = now + TickStep
    /\ UNCHANGED <<contractVars, last>>

(* The call in progress returns; the next one may be sent. *)
Return ==
    /\ last # Idle
    /\ last' = Idle
    /\ UNCHANGED <<contractVars, now>>

AddProviderStep ==
    \E c \in Callers, p \in Candidates :
        last = Idle /\ addProvider(c, p) /\ UNCHANGED now
RemoveProviderStep ==
    \E c \in Callers, p \in Candidates :
        last = Idle /\ removeProvider(c, p) /\ UNCHANGED now
PauseStep == \E c \in Callers : last = Idle /\ pause(c) /\ UNCHANGED now
UnpauseStep == \E c \in Callers : last = Idle /\ unpause(c) /\ UNCHANGED now
SetCooldownStep ==
    \E c \in Callers, n \in NewCooldowns :
        last = Idle /\ setCooldownSeconds(c, n) /\ UNCHANGED now
OpenBatchStep == \E c \in Callers : last = Idle /\ openBatch(c) /\ UNCHANGED now
CloseBatchStep == \E c \in Callers : last = Idle /\ closeBatch(c) /\ UNCHANGED now
SubmitStep ==
    \E c \in Callers, in \in SubmitInputs :
        last = Idle /\ submitPlayerScore(c, in[1], in[2]) /\ UNCHANGED now
FindMatchStep ==
    \E c \in Callers, pr \in Pairings :
        last = Idle /\ findMatch(c, pr[1], pr[2]) /\ UNCHANGED now
CallbackStep ==
    \E c \in Callers, r \in RequestIds, ct \in Cleartexts, ok \in BOOLEAN :
        last = Idle /\ myCallback(c, r, ct, ok) /\ UNCHANGED now

Next ==
    \/ AddProviderStep
    \/ RemoveProviderStep
    \/ PauseStep
    \/ UnpauseStep
    \/ SetCooldownStep
    \/ OpenBatchStep
    \/ CloseBatchStep
    \/ SubmitStep
    \/ FindMatchStep
    \/ CallbackStep
    \/ Tick
    \/ Return

Spec == Init /\ [][Next]_vars

(* ---------------- requests initiated by either player ----------------- *)
(* The same contract driven with pairings in both orders, so that each of  *)
(* the two players is player1 of some request.                             *)
InitiatorPairings == {<<"A", "B">>, <<"B", "A">>}

InitiatorSubmitInputs == {<<"A", 5>>, <<"B", 5>>}

SubmitEitherStep ==
    \E c \in Callers, in \in InitiatorSubmitInputs :
        last = Idle /\ submitPlayerScore(c, in[1], in[2]) /\ UNCHANGED now
FindMatchEitherStep ==
    \E c \in Callers, pr \in InitiatorPairings :
        last = Idle /\ findMatch(c, pr[1], pr[2]) /\ UNCHANGED now

NextInitiator ==
    \/ AddProviderStep
    \/ RemoveProviderStep
    \/ PauseStep
    \/ UnpauseStep
    \/ SetCooldownStep
    \/ OpenBatchStep
    \/ CloseBatchStep
    \/ SubmitEitherStep
    \/ FindMatchEitherStep
    \/ CallbackStep
    \/ Tick
    \/ Return

SpecInitiator == Init /\ [][NextInitiator]_vars

(* ====================================================================== *)
(*                               Properties                               *)
(* ====================================================================== *)

(* requestMatch has returned r: a MatchRequest and a context are stored. *)
Stored(r) == r < nextRequestId

Pending(r) == Stored(r) /\ ~decryptionContexts[r].processed

(* The outcome o is that of a callback for r. *)
IsCallback(o, r) == o.op = "myCallback" /\ o.args[1] = r

(* Handles a stored score could be replaced by. *)
HandleDomain == {ZeroHandle} \cup {asEuint32(v) : v \in Scores \cup {7}}

(* C1: for every requestId r the callback succeeds at most once; once it  *)
(* has succeeded, every later callback for r, whatever the cleartext and   *)
(* the proof, fails with ReplayDetected, emits no notification and leaves  *)
(* processed[r] true.                                                      *)
C1_ReplayRejected ==
    [][\A r \in RequestIds :
          /\ completions'[r] <= 1
          /\ (completions[r] >= 1 /\ IsCallback(last', r))
                => /\ last'.err = "ReplayDetected"
                   /\ last'.event.name = "none"
                   /\ decryptionContexts'[r].processed
                   /\ decryptionContexts[r].processed]_vars

C1_Witness ==
    /\ last.op = "myCallback"
    /\ last.err = "ReplayDetected"
    /\ last.args[3]
    /\ completions[last.args[1]] = 1

(* C2: for every stored request the commitment recomputed from the stored  *)
(* scores equals the stored commitment (the stored handles never change),  *)
(* and with either stored handle replaced by a different one the           *)
(* recomputed commitment differs, so that the callback fails with          *)
(* StateMismatch.                                                          *)
C2_CommitmentBinding ==
    \A r \in RequestIds :
        Stored(r) =>
            /\ StateCheck(r) = "ok"
            /\ \A h1 \in HandleDomain, h2 \in HandleDomain :
                  (h1 # matchRequests[r].encryptedScore1
                      \/ h2 # matchRequests[r].encryptedScore2)
                  => CommitmentCheck(
                        [matchRequests[r] EXCEPT !.encryptedScore1 = h1,
                                                 !.encryptedScore2 = h2],
                        decryptionContexts[r]) = "StateMismatch"

C2_Witness ==
    \E r \in RequestIds :
        /\ Pending(r)
        /\ last = Idle
        /\ batchSubmissions[decryptionContexts[r].batchId][matchRequests[r].player1]
               .encryptedScore # matchRequests[r].encryptedScore1

(* C3 as stated: a StateMismatch or InvalidProof failure is terminal for r, *)
(* no later callback for r finalizes it.  In particular, in the state such  *)
(* a failure leaves behind, no callback for r succeeds, whatever its proof. *)
C3_Original_FailureIsTerminal ==
    \A r \in RequestIds :
        (IsCallback(last, r) /\ last.err \in {"StateMismatch", "InvalidProof"})
            => \A signaturesOk \in BOOLEAN : CallbackError(r, signaturesOk) # "ok"

(* C3 amended: a callback that fails with StateMismatch or InvalidProof     *)
(* finalizes nothing, emits nothing and changes no state; a callback for a  *)
(* pending r whose proof is rejected fails with InvalidProof; the failure   *)
(* is not recorded, so r stays pending and a later callback whose proof is  *)
(* accepted still finalizes it.                                             *)
C3_FailureChangesNothing ==
    [][\A r \in RequestIds :
          /\ (IsCallback(last', r) /\ Pending(r) /\ ~last'.args[3])
                => last'.err = "InvalidProof"
          /\ (IsCallback(last', r)
                /\ last'.err \in {"StateMismatch", "InvalidProof"})
                => /\ UNCHANGED contractVars
                   /\ last'.event.name = "none"
                   /\ ~decryptionContexts'[r].processed
                   /\ (Stored(r) => CallbackError(r, TRUE)' = "ok")]_vars

C3_Witness ==
    \E r \in RequestIds :
        /\ IsCallback(last, r)
        /\ last.err = "InvalidProof"
        /\ Pending(r)

(* C4 as stated: a callback for a requestId no requestMatch returned fails  *)
(* with UnknownRequest.                                                     *)
C4_Original_UnknownRequest ==
    \A r \in RequestIds :
        (IsCallback(last, r) /\ ~Stored(r)) => last.err = "UnknownRequest"

(* C4 amended: a callback for a requestId no requestMatch returned is       *)
(* rejected with StateMismatch, by the commitment comparison that follows   *)
(* the replay check (there is no lookup and no UnknownRequest error), and   *)
(* changes no state.                                                        *)
C4_UnknownRequestMismatch ==
    [][\A r \in RequestIds :
          (IsCallback(last', r) /\ ~Stored(r))
              => /\ last'.err = "StateMismatch"
                 /\ ReplayCheck(r) = "ok"
                 /\ last'.event.name = "none"
                 /\ UNCHANGED contractVars]_vars

C4_Witness ==
    \E r \in RequestIds :
        /\ IsCallback(last, r)
        /\ ~Stored(r)
        /\ last.args[3]
        /\ last.err = "StateMismatch"

(* C5 as stated: requestMatch succeeds only while the batch is open; with   *)
(* the batch closed it fails and stores no MatchRequest, no context and     *)
(* sends no oracle request.                                                 *)
C5_RequestNeedsOpenBatch ==
    [][(~batchOpen /\ last'.op = "findMatch")
          => /\ last'.err # "ok"
             /\ UNCHANGED <<matchRequests, decryptionContexts, nextRequestId>>]_vars

(* C6: submitScore called while the batch is closed always fails and        *)
(* changes no state; a stored submission changes only by a submitScore for  *)
(* the current batch while that batch is open.                              *)
C6_ClosedBatchRejectsSubmit ==
    [][/\ (~batchOpen /\ last'.op = "submitPlayerScore")
            => /\ last'.err # "ok"
               /\ last'.event.name = "none"
               /\ UNCHANGED contractVars
       /\ \A b \in BatchIds, p \in Players :
            batchSubmissions'[b][p] # batchSubmissions[b][p]
                => /\ batchOpen
                   /\ b = currentBatchId
                   /\ last'.op = "submitPlayerScore"
                   /\ last'.args[1] = p]_vars

C6_Witness ==
    /\ last.op = "submitPlayerScore"
    /\ last.err = "BatchClosed"
    /\ ~batchOpen
    /\ currentBatchId >= 1

(* The role, pause and cooldown gates of findMatch admit the call. *)
RequestGatesPass(caller, player1) ==
    /\ onlyProvider(caller) = "ok"
    /\ whenNotPaused = "ok"
    /\ checkRequestCooldown(player1) = "ok"

NoSubmission(p) == isZero(batchSubmissions[currentBatchId][p].encryptedScore)

(* C7: every MatchRequest created has player1 # player2, both holding a     *)
(* submission in the batch current at request time; requestMatch(p1,p2)     *)
(* with p1 = p2 or with a player lacking a submission in the current batch  *)
(* fails and changes no state, with InvalidSubmission once the role, pause  *)
(* and cooldown gates that precede the check admit the call.                *)
C7_PairingPreconditions ==
    [][/\ last'.op = "findMatch" =>
            LET p1 == last'.args[1]
                p2 == last'.args[2]
                R == nextRequestId
            IN  /\ (p1 = p2 \/ NoSubmission(p1) \/ NoSubmission(p2))
                      => /\ last'.err # "ok"
                         /\ UNCHANGED contractVars
                         /\ RequestGatesPass(last'.caller, p1)
                               => last'.err = "InvalidSubmission"
                /\ last'.err = "ok"
                      => /\ matchRequests'[R].player1 = p1
                         /\ matchRequests'[R].player2 = p2
                         /\ matchRequests'[R].encryptedScore1
                               = batchSubmissions[currentBatchId][p1].encryptedScore
                         /\ matchRequests'[R].encryptedScore2
                               = batchSubmissions[currentBatchId][p2].encryptedScore
       /\ \A r \in RequestIds :
            Stored(r)' =>
                /\ matchRequests'[r].player1 # matchRequests'[r].player2
                /\ ~isZero(matchRequests'[r].encryptedScore1)
                /\ ~isZero(matchRequests'[r].encryptedScore2)]_vars

C7_Witness ==
    /\ last.op = "findMatch"
    /\ last.err = "InvalidSubmission"
    /\ last.args[1] = last.args[2]
    /\ ~NoSubmission(last.args[1])

(* C8: once stored, MatchRequest[r] and the batch id and commitment of      *)
(* DecryptionContext[r] are changed by no operation, and processed[r] only  *)
(* by the successful callback for r; a callback for a pending r whose proof *)
(* is accepted finalizes with the scores captured at request time, whatever *)
(* was submitted, opened, closed or requested in between.                   *)
C8_StoredRequestImmutable ==
    [][\A r \in RequestIds :
          Stored(r) =>
              /\ matchRequests'[r] = matchRequests[r]
              /\ decryptionContexts'[r].batchId = decryptionContexts[r].batchId
              /\ decryptionContexts'[r].stateHash = decryptionContexts[r].stateHash
              /\ decryptionContexts'[r].processed # decryptionContexts[r].processed
                    => (IsCallback(last', r) /\ last'.err = "ok")
              /\ (Pending(r) /\ IsCallback(last', r) /\ last'.args[3])
                    => /\ last'.err = "ok"
                       /\ last'.event.params[5]
                             = toUint32(matchRequests[r].encryptedScore1)
                       /\ last'.event.params[6]
                             = toUint32(matchRequests[r].encryptedScore2)]_vars

C8_Witness ==
    \E r \in RequestIds :
        /\ IsCallback(last, r)
        /\ last.err = "ok"
        /\ nextRequestId > r + 1
        /\ currentBatchId > decryptionContexts[r].batchId
        /\ batchSubmissions[decryptionContexts[r].batchId][matchRequests[r].player1]
               .encryptedScore # matchRequests[r].encryptedScore1

(* C9: after openBatch, successful submissions for A and B and a successful *)
(* requestMatch(A,B) that obtained R, the first callback for R whose proof  *)
(* is accepted succeeds, sets processed[R] and emits the match-completed    *)
(* notification carrying R, the batch id stored at request time, A and B.   *)
C9_HappyPath ==
    [][/\ (last'.op = "findMatch" /\ last'.err = "ok")
            => /\ matchRequests'[nextRequestId].player1 = last'.args[1]
               /\ matchRequests'[nextRequestId].player2 = last'.args[2]
               /\ decryptionContexts'[nextRequestId].batchId = currentBatchId
               /\ ~decryptionContexts'[nextRequestId].processed
               /\ last'.event.name = "MatchmakingRequested"
               /\ last'.event.params[1] = nextRequestId
       /\ \A r \in RequestIds :
            (Pending(r) /\ IsCallback(last', r) /\ last'.args[3])
                => /\ last'.err = "ok"
                   /\ decryptionContexts'[r].processed
                   /\ last'.event.name = "MatchmakingCompleted"
                   /\ last'.event.params[1] = r
                   /\ last'.event.params[2] = decryptionContexts[r].batchId
                   /\ last'.event.params[3] = matchRequests[r].player1
                   /\ last'.event.params[4] = matchRequests[r].player2]_vars

C9_Witness ==
    /\ last.op = "myCallback"
    /\ last.err = "ok"
    /\ last.event.name = "MatchmakingCompleted"
    /\ last.event.params[1] = last.args[1]
    /\ last.event.params[2] = 1
    /\ last.event.params[3] = "A"
    /\ last.event.params[4] = "B"
    /\ completions[last.args[1]] = 1

(* C10 as stated: while paused, every operation other than unpause fails    *)
(* and leaves all state unchanged.                                          *)
C10_PauseGatesEverything ==
    [][(paused /\ last = Idle /\ last' # Idle /\ last'.op # "unpause")
          => /\ last'.err # "ok"
             /\ UNCHANGED contractVars]_vars

(* ------------------------- access control ----------------------------- *)
ProviderOps == {"submitPlayerScore", "findMatch"}

OwnerOps ==
    {"addProvider", "removeProvider", "pause", "unpause",
     "setCooldownSeconds", "openBatch", "closeBatch"}

(* C11: submitPlayerScore and findMatch called by an address that is not   *)
(* in the provider set at the time of the call fail with NotProvider and   *)
(* change nothing (ledger, requests, contexts and cooldown timestamps      *)
(* included); a successful removeProvider takes the address out of the     *)
(* set, so a former provider is rejected in the same way.                  *)
C11_NonProviderRejected ==
    [][/\ (last'.op \in ProviderOps /\ ~isProvider[last'.caller])
            => /\ last'.err = "NotProvider"
               /\ last'.event.name = "none"
               /\ UNCHANGED contractVars
       /\ (last'.op = "removeProvider" /\ last'.err = "ok")
            => \A c \in Callers :
                   c = last'.args[1]
                       => /\ ~isProvider'[c]
                          /\ onlyProvider(c)' = "NotProvider"]_vars

(* The added provider has been removed again and its submission for a      *)
(* player is rejected while a batch is open and the system is not paused.  *)
C11_Witness ==
    /\ last.op \in ProviderOps
    /\ last.caller = Prov
    /\ last.err = "NotProvider"
    /\ ~isProvider[Prov]
    /\ batchOpen /\ ~paused
    /\ fheInitialized

(* C12: the seven administrative operations called by anyone but the owner *)
(* fail with NotOwner and change nothing, also when the caller is a        *)
(* registered provider; the provider set, the paused flag, cooldownSeconds,*)
(* currentBatchId and batchOpen change only in a successful call of one of *)
(* these operations by the owner.                                          *)
C12_OwnerOnlyAdministration ==
    [][/\ (last'.op \in OwnerOps /\ last'.caller # Owner)
            => /\ last'.err = "NotOwner"
               /\ last'.event.name = "none"
               /\ UNCHANGED contractVars
       /\ <<isProvider, paused, cooldownSeconds, currentBatchId, batchOpen>>'
              # <<isProvider, paused, cooldownSeconds, currentBatchId, batchOpen>>
            => /\ last'.op \in OwnerOps
               /\ last'.caller = Owner
               /\ last'.err = "ok"]_vars

(* A registered provider that is not the owner tries to open a batch.      *)
C12_Witness ==
    /\ last.op = "openBatch"
    /\ last.caller = Prov
    /\ isProvider[Prov]
    /\ last.err = "NotOwner"
    /\ ~batchOpen /\ ~paused

(* --------------------------- batch registry --------------------------- *)
(* Error names that report the registry as open, respectively as closed;   *)
(* the contract declares BatchNotOpen and BatchClosed only.                *)
ErrorsSayingOpen == {"BatchAlreadyOpen"}

ErrorsSayingClosed == {"BatchAlreadyClosed", "BatchClosed"}

(* C13: the registry is a two-state machine: openBatch succeeds only from  *)
(* Closed, adds exactly 1 to currentBatchId and leaves the batch open;     *)
(* closeBatch succeeds only from Open, leaves the batch closed and the id  *)
(* unchanged; openBatch on an open batch and closeBatch on a closed batch  *)
(* change nothing and, for the owner while not paused, fail with the error *)
(* that reports the batch as already open, respectively already closed.    *)
C13_BatchStateMachine ==
    [][/\ (last'.op = "openBatch" /\ last'.err = "ok")
            => /\ ~batchOpen /\ batchOpen'
               /\ currentBatchId' = currentBatchId + 1
       /\ (last'.op = "closeBatch" /\ last'.err = "ok")
            => /\ batchOpen /\ ~batchOpen'
               /\ currentBatchId' = currentBatchId
       /\ (last'.op = "openBatch" /\ batchOpen)
            => /\ last'.err # "ok"
               /\ UNCHANGED contractVars
               /\ (last'.caller = Owner /\ ~paused)
                    => last'.err \in ErrorsSayingOpen
       /\ (last'.op = "closeBatch" /\ ~batchOpen)
            => /\ last'.err # "ok"
               /\ UNCHANGED contractVars
               /\ (last'.caller = Owner /\ ~paused)
                    => last'.err \in ErrorsSayingClosed]_vars

(* C14: currentBatchId never decreases and changes only in a successful    *)
(* openBatch; every successful openBatch opens (and announces) an id       *)
(* strictly above the previous currentBatchId, hence above every id opened *)
(* before, so no id is opened twice.                                       *)
C14_BatchIdsMonotone ==
    [][/\ currentBatchId' >= currentBatchId
       /\ currentBatchId' # currentBatchId
            => (last'.op = "openBatch" /\ last'.err = "ok")
       /\ (last'.op = "openBatch" /\ last'.err = "ok")
            => /\ currentBatchId' > currentBatchId
               /\ last'.event = Event("BatchOpened", <<currentBatchId'>>)]_vars

(* A second batch has just been opened after the first one was closed.     *)
C14_Witness ==
    /\ last.op = "openBatch"
    /\ last.err = "ok"
    /\ currentBatchId = 2
    /\ batchOpen

(* ------------------------------ cooldowns ------------------------------ *)
(* A submission for the player has succeeded: the first one cannot succeed *)
(* at time 0, so the recorded timestamp is positive from then on.          *)
HasSubmitted(p) == lastSubmissionTimestamp[p] > 0

(* C15: once a submission for p has succeeded at t = lastSubmissionTimestamp*)
(* [p], a submitPlayerScore for p at now < t + cooldownSeconds fails and   *)
(* changes nothing, with CooldownActive when the caller is a provider and  *)
(* the system is not paused; at now >= t + cooldownSeconds, from a         *)
(* provider, not paused and with the batch open, it succeeds and sets      *)
(* lastSubmissionTimestamp[p] to now.                                      *)
C15_SubmissionCooldown ==
    [][\A p \in Players :
         (last'.op = "submitPlayerScore" /\ last'.args[1] = p /\ HasSubmitted(p))
           => /\ now < lastSubmissionTimestamp[p] + cooldownSeconds
                   => /\ last'.err # "ok"
                      /\ UNCHANGED contractVars
                      /\ (isProvider[last'.caller] /\ ~paused)
                            => last'.err = "CooldownActive"
              /\ ( /\ now >= lastSubmissionTimestamp[p] + cooldownSeconds
                   /\ isProvider[last'.caller] /\ ~paused /\ batchOpen )
                   => /\ last'.err = "ok"
                      /\ lastSubmissionTimestamp'[p] = now]_vars

(* The player's submission of batch 1 succeeded at 10; with the cooldown   *)
(* at 10 the next one succeeded at 20, in batch 2, and a further one at    *)
(* the same time is rejected.                                              *)
C15_Witness ==
    \E p \in Players :
        /\ last.op = "submitPlayerScore" /\ last.args[1] = p
        /\ last.err = "CooldownActive"
        /\ currentBatchId = 2
        /\ batchSubmissions[1][p].submissionTimestamp = MIN_COOLDOWN_SECONDS
        /\ batchSubmissions[2][p].submissionTimestamp = 2 * MIN_COOLDOWN_SECONDS
        /\ lastSubmissionTimestamp[p] = now

(* C16: cooldownSeconds is at least MIN_COOLDOWN_SECONDS before and after  *)
(* every step; setCooldownSeconds with a smaller value fails and leaves it *)
(* (and everything else) unchanged, with InvalidCooldown when the caller   *)
(* is the owner; a successful setCooldownSeconds sets exactly the value    *)
(* given, and no other step changes cooldownSeconds.                       *)
C16_CooldownBound ==
    [][/\ cooldownSeconds >= MIN_COOLDOWN_SECONDS
       /\ cooldownSeconds' >= MIN_COOLDOWN_SECONDS
       /\ (last'.op = "setCooldownSeconds" /\ last'.args[1] < MIN_COOLDOWN_SECONDS)
            => /\ last'.err # "ok"
               /\ UNCHANGED contractVars
               /\ last'.caller = Owner => last'.err = "InvalidCooldown"
       /\ (last'.op = "setCooldownSeconds" /\ last'.err = "ok")
            => cooldownSeconds' = last'.args[1]
       /\ cooldownSeconds' # cooldownSeconds
            => (last'.op = "setCooldownSeconds" /\ last'.err = "ok")]_vars

(* The owner's attempt to set a cooldown below the minimum is rejected     *)
(* after the cooldown had been lowered from its initial value.             *)
C16_Witness ==
    /\ last.op = "setCooldownSeconds"
    /\ last.caller = Owner
    /\ last.args[1] < MIN_COOLDOWN_SECONDS
    /\ last.err = "InvalidCooldown"
    /\ cooldownSeconds = MIN_COOLDOWN_SECONDS

(* ------------------------- finalization flag --------------------------- *)
(* C17: for every request id the processed flag is monotone: no step,      *)
(* findMatch storing a new context included, takes it from true back to    *)
(* false; it becomes true only in a successful callback for that id, which *)
(* requires it to be false, so it is set at most once.                     *)
C17_ProcessedMonotone ==
    [][\A r \in RequestIds :
         /\ decryptionContexts[r].processed => decryptionContexts'[r].processed
         /\ (~decryptionContexts[r].processed /\ decryptionContexts'[r].processed)
              => /\ IsCallback(last', r) /\ last'.err = "ok"
                 /\ completions'[r] = 1]_vars

(* A later findMatch has stored a context while an earlier request stays   *)
(* finalized.                                                              *)
C17_Witness ==
    \E r \in RequestIds :
        /\ decryptionContexts[r].processed
        /\ last.op = "findMatch" /\ last.err = "ok"
        /\ last.event.params[1] # r
        /\ Stored(last.event.params[1])
        /\ ~decryptionContexts[last.event.params[1]].processed

(* --------------------------- confidentiality --------------------------- *)
(* The handle h as it stands in a run where the cleartext behind it is v: *)
(* the val field is what the engine holds for the handle.                 *)
WithCleartext(h, v) == [h EXCEPT !.val = v]

(* The stored request of a run that differs only in the two players'      *)
(* cleartext scores.                                                      *)
WithScores(request, v1, v2) ==
    [request EXCEPT !.encryptedScore1 = WithCleartext(@, v1),
                    !.encryptedScore2 = WithCleartext(@, v2)]

(* C18: finalization discloses no raw score: the notification of a         *)
(* successful callback is the one the callback would emit in any run that  *)
(* differs only in the cleartext scores behind the two stored handles.     *)
C18_NotificationHidesScores ==
    \A r \in RequestIds :
        (IsCallback(last, r) /\ last.err = "ok")
            => \A v1, v2 \in Scores :
                   CompletedNotification(r, WithScores(matchRequests[r], v1, v2),
                                         decryptionContexts[r])
                       = last.event

(* ------------------------- submission ledger --------------------------- *)
(* C19: submissions are last-write-wins per (batch, player): a successful  *)
(* submitPlayerScore leaves, for the current batch and the player, exactly *)
(* the handle and timestamp of this call, whatever was stored before, and  *)
(* touches no other entry; a successful findMatch captures the handles the *)
(* ledger holds at that time, that is, those of the latest submissions.    *)
C19_LastWriteWins ==
    [][/\ (last'.op = "submitPlayerScore" /\ last'.err = "ok")
            => /\ batchSubmissions'[currentBatchId][last'.args[1]]
                     = [encryptedScore |-> asEuint32(last'.args[2]),
                        submissionTimestamp |-> now]
               /\ \A b \in BatchIds, p \in Players :
                      (b # currentBatchId \/ p # last'.args[1])
                          => batchSubmissions'[b][p] = batchSubmissions[b][p]
       /\ (last'.op = "findMatch" /\ last'.err = "ok")
            => LET request == matchRequests'[last'.event.params[1]]
               IN  /\ request.encryptedScore1
                         = batchSubmissions[currentBatchId][request.player1].encryptedScore
                   /\ request.encryptedScore2
                         = batchSubmissions[currentBatchId][request.player2].encryptedScore]_vars

(* Two requests of the same batch for the same first player hold different *)
(* handles: the player's score was submitted twice in the batch, and the   *)
(* request just stored captured the later handle, the one in the ledger.   *)
C19_Witness ==
    /\ last.op = "findMatch" /\ last.err = "ok"
    /\ last.event.params[1] = 2
    /\ decryptionContexts[1].batchId = decryptionContexts[2].batchId
    /\ matchRequests[1].player1 = matchRequests[2].player1
    /\ matchRequests[1].encryptedScore1 # matchRequests[2].encryptedScore1
    /\ matchRequests[2].encryptedScore1
           = batchSubmissions[currentBatchId][matchRequests[2].player1].encryptedScore
    /\ batchSubmissions[currentBatchId][matchRequests[2].player1].submissionTimestamp = now

(* ----------------------- independent callbacks ------------------------- *)
(* C20: callbacks for distinct requests do not interfere: a callback for   *)
(* r1, successful or not, leaves the stored request and context of every   *)
(* other r2 unchanged, and with them the outcome a callback for r2 would   *)
(* have; a callback with a valid proof for a pending r2 succeeds whatever  *)
(* has been delivered for other requests, in whatever order.               *)
C20_CallbacksIndependent ==
    [][\A r1, r2 \in RequestIds :
         r1 # r2 =>
           /\ IsCallback(last', r1)
                => /\ matchRequests'[r2] = matchRequests[r2]
                   /\ decryptionContexts'[r2] = decryptionContexts[r2]
                   /\ \A s \in BOOLEAN :
                          CallbackError(r2, s)' = CallbackError(r2, s)
           /\ Pending(r2) => CallbackError(r2, TRUE) = "ok"
           /\ (Pending(r2) /\ IsCallback(last', r2) /\ last'.args[3])
                => last'.err = "ok"]_vars

(* Out-of-order delivery: the first request is finalized by a callback     *)
(* that arrives after the second request was finalized.                    *)
C20_Witness ==
    /\ IsCallback(last, 1)
    /\ last.err = "ok"
    /\ Stored(2)
    /\ completions[2] = 1
    /\ completions[1] = 1

(* -------------------------- request cooldown --------------------------- *)
(* A request with the player as player1 has succeeded: the first one       *)
(* cannot succeed at time 0.                                               *)
HasRequested(p) == lastRequestTimestamp[p] > 0

(* C21: the request cooldown is keyed on player1 only: a successful        *)
(* findMatch(p1, p2) sets lastRequestTimestamp[p1] to now and leaves the   *)
(* request timestamp of every other player and all submission timestamps   *)
(* unchanged; a further findMatch with the same player1 before             *)
(* t + cooldownSeconds fails without state change (with CooldownActive for *)
(* a provider while not paused); findMatch is rejected with CooldownActive *)
(* only on account of its own player1's last request, and                  *)
(* submitPlayerScore only on account of the player's last submission.      *)
C21_RequestCooldownKeyedOnPlayer1 ==
    [][\A p \in Players :
         /\ (last'.op = "findMatch" /\ last'.err = "ok" /\ last'.args[1] = p)
              => /\ lastRequestTimestamp'[p] = now
                 /\ \A q \in Players \ {p} :
                        lastRequestTimestamp'[q] = lastRequestTimestamp[q]
                 /\ lastSubmissionTimestamp' = lastSubmissionTimestamp
         /\ ( /\ last'.op = "findMatch" /\ last'.args[1] = p /\ HasRequested(p)
              /\ now < lastRequestTimestamp[p] + cooldownSeconds )
              => /\ last'.err # "ok"
                 /\ UNCHANGED contractVars
                 /\ (isProvider[last'.caller] /\ ~paused)
                       => last'.err = "CooldownActive"
         /\ ( /\ last'.op = "findMatch" /\ last'.args[1] = p
              /\ last'.err = "CooldownActive" )
              => now < lastRequestTimestamp[p] + cooldownSeconds
         /\ ( /\ last'.op = "submitPlayerScore" /\ last'.args[1] = p
              /\ last'.err = "CooldownActive" )
              => now < lastSubmissionTimestamp[p] + cooldownSeconds]_vars

(* Within the cooldown of a request with A as player1, a request with B as *)
(* player1 (and A as player2) succeeds.                                    *)
C21_Witness ==
    /\ last.op = "findMatch" /\ last.err = "ok"
    /\ last.args = <<"B", "A">>
    /\ HasRequested("A")
    /\ now < lastRequestTimestamp["A"] + cooldownSeconds
    /\ lastRequestTimestamp["B"] = now

(* --------------------------- batch snapshot ---------------------------- *)
(* C22: the callback consults the batch id stored with the request and     *)
(* never the current batch: findMatch stores the id current at request     *)
(* time, no later step changes it, and a callback with a valid proof for a *)
(* pending request succeeds whether the batch is open or closed and        *)
(* whatever currentBatchId has become, announcing the stored id.           *)
C22_BatchSnapshot ==
    [][\A r \in RequestIds :
         /\ (last'.op = "findMatch" /\ last'.err = "ok" /\ last'.event.params[1] = r)
              => decryptionContexts'[r].batchId = currentBatchId
         /\ Stored(r)
              => decryptionContexts'[r].batchId = decryptionContexts[r].batchId
         /\ (Pending(r) /\ IsCallback(last', r) /\ last'.args[3])
              => /\ last'.err = "ok"
                 /\ last'.event.name = "MatchmakingCompleted"
                 /\ last'.event.params[2] = decryptionContexts[r].batchId]_vars

(* The request was made in batch 1; its callback succeeds after batch 1    *)
(* was closed and batch 2 opened, and announces batch 1.                   *)
C22_Witness ==
    \E r \in RequestIds :
        /\ IsCallback(last, r) /\ last.err = "ok"
        /\ last.event.params[2] = 1
        /\ currentBatchId = 2
        /\ decryptionContexts[r].batchId = 1

(* --------------------------- no cancellation --------------------------- *)
(* C23: a request is finalized only by a successful callback for it: in    *)
(* every step that is not such a callback a pending request stays pending  *)
(* with its stored request and context unchanged, and the processed flag   *)
(* of no request becomes true.                                             *)
C23_OnlyCallbackFinalizes ==
    [][\A r \in RequestIds :
         LET finalizing == IsCallback(last', r) /\ last'.err = "ok"
         IN  /\ (Pending(r) /\ ~finalizing)
                  => /\ Pending(r)'
                     /\ matchRequests'[r] = matchRequests[r]
                     /\ decryptionContexts'[r] = decryptionContexts[r]
             /\ (~decryptionContexts[r].processed /\ decryptionContexts'[r].processed)
                  => finalizing]_vars

(* The first request is still pending, unchanged, after time has passed,   *)
(* its batch was closed, a new batch opened and a later request finalized. *)
C23_Witness ==
    /\ Pending(1)
    /\ Stored(2) /\ decryptionContexts[2].processed
    /\ matchRequests[1].requestTimestamp < now
    /\ decryptionContexts[1].batchId < currentBatchId
    /\ last.op = "myCallback" /\ last.args[1] = 1 /\ last.err = "InvalidProof"

(* ---------------------------- check order ------------------------------ *)
(* C24: the role is checked first, then the pause, then the operation's    *)
(* own preconditions: while paused, an owner-only operation called by a    *)
(* non-owner fails with NotOwner and a provider-only operation called by a *)
(* non-provider with NotProvider, never with Paused; while paused,         *)
(* submitPlayerScore and findMatch called by a provider fail with Paused,  *)
(* whatever the cooldown, the batch and the submissions are.               *)
C24_CheckOrder ==
    [][paused =>
         /\ (last'.op \in OwnerOps /\ last'.caller # Owner)
              => last'.err = "NotOwner"
         /\ (last'.op \in ProviderOps /\ ~isProvider[last'.caller])
              => last'.err = "NotProvider"
         /\ (last'.op \in ProviderOps /\ isProvider[last'.caller])
              => last'.err = "Paused"]_vars

(* Paused, batch closed, the player inside the submission cooldown: the    *)
(* provider's submission is rejected with Paused.                          *)
C24_Witness ==
    /\ paused
    /\ last.op = "submitPlayerScore"
    /\ isProvider[last.caller]
    /\ ~batchOpen
    /\ checkSubmissionCooldown(last.args[1]) = "CooldownActive"
    /\ last.err = "Paused"

(* --------------------------- unknown requests -------------------------- *)
(* C25: a request id no findMatch has stored can never be finalized: its   *)
(* request and context are the defaults, the stored commitment is the zero *)
(* value, which differs from the commitment recomputed from the empty      *)
(* stored scores, so a callback for it fails whatever the proof; it has    *)
(* never completed, and a callback just made for it was rejected without a *)
(* notification.                                                           *)
C25_UnstoredNeverFinalizes ==
    \A r \in RequestIds :
        ~Stored(r) =>
            /\ matchRequests[r] = EmptyMatchRequest
            /\ decryptionContexts[r] = EmptyContext
            /\ decryptionContexts[r].stateHash = ZeroHash
            /\ _hashCiphertexts(RebuiltCiphertexts(matchRequests[r])) # ZeroHash
            /\ \A s \in BOOLEAN : CallbackError(r, s) # "ok"
            /\ ~decryptionContexts[r].processed
            /\ completions[r] = 0
            /\ IsCallback(last, r)
                 => (last.err # "ok" /\ last.event.name = "none")

(* With the first request finalized, a callback with a valid proof for the *)
(* second id, which no findMatch has stored, has been rejected.            *)
C25_Witness ==
    /\ Stored(1) /\ decryptionContexts[1].processed
    /\ ~Stored(2)
    /\ IsCallback(last, 2)
    /\ last.args[3]
    /\ last.err # "ok"

(* ----------------------- batches start empty --------------------------- *)
(* The player has a submission in batch b. *)
SubmittedIn(b, p) == ~isZero(batchSubmissions[b][p].encryptedScore)

(* C26: submissions do not carry over: a successful openBatch opens a      *)
(* batch that holds no submission of any player, and findMatch(p1, p2)     *)
(* fails without state change as long as p1 or p2 has no submission in the *)
(* current batch (with InvalidSubmission once the provider, pause and      *)
(* cooldown checks admit the call), whatever earlier batches hold.         *)
C26_NoCarryOver ==
    [][/\ (last'.op = "openBatch" /\ last'.err = "ok")
            => \A b \in BatchIds, p \in Players :
                   b = currentBatchId' => ~SubmittedIn(b, p)'
       /\ \A p1, p2 \in Players :
            ( /\ last'.op = "findMatch" /\ last'.args = <<p1, p2>>
              /\ (~SubmittedIn(currentBatchId, p1) \/ ~SubmittedIn(currentBatchId, p2)) )
              => /\ last'.err # "ok"
                 /\ UNCHANGED contractVars
                 /\ ( /\ isProvider[last'.caller] /\ ~paused
                      /\ checkRequestCooldown(p1) = "ok" )
                      => last'.err = "InvalidSubmission"]_vars

(* Both players submitted in batch 1; in batch 2 only the first has        *)
(* submitted again, and the request for the pair is rejected.              *)
C26_Witness ==
    /\ currentBatchId = 2
    /\ SubmittedIn(1, "A") /\ SubmittedIn(1, "B")
    /\ SubmittedIn(2, "A") /\ ~SubmittedIn(2, "B")
    /\ last.op = "findMatch" /\ last.args = <<"A", "B">>
    /\ last.err = "InvalidSubmission"

(* ----------------------- cooldown across batches ----------------------- *)
(* C27: the submission cooldown is per player, not per (player, batch):    *)
(* closeBatch and openBatch leave the submission timestamps unchanged, and *)
(* a submitPlayerScore for a player who submitted at t in an earlier batch *)
(* and not yet in the current one fails without state change at            *)
(* now < t + cooldownSeconds (with CooldownActive for a provider while not *)
(* paused).                                                                *)
C27_CooldownAcrossBatches ==
    [][/\ last'.op \in {"openBatch", "closeBatch"}
            => lastSubmissionTimestamp' = lastSubmissionTimestamp
       /\ \A p \in Players :
            ( /\ last'.op = "submitPlayerScore" /\ last'.args[1] = p
              /\ HasSubmitted(p)
              /\ ~SubmittedIn(currentBatchId, p)
              /\ now < lastSubmissionTimestamp[p] + cooldownSeconds )
              => /\ last'.err # "ok"
                 /\ UNCHANGED contractVars
                 /\ (isProvider[last'.caller] /\ ~paused)
                       => last'.err = "CooldownActive"]_vars

(* The player submitted in batch 1; batch 2 is open and holds nothing of   *)
(* the player, whose submission there is rejected by the cooldown.         *)
C27_Witness ==
    \E p \in Players :
        /\ currentBatchId = 2 /\ batchOpen
        /\ SubmittedIn(1, p)
        /\ batchSubmissions[1][p].submissionTimestamp = lastSubmissionTimestamp[p]
        /\ ~SubmittedIn(2, p)
        /\ last.op = "submitPlayerScore" /\ last.args[1] = p
        /\ last.err = "CooldownActive"

(* ------------------------ implicit zero timestamp ---------------------- *)
(* C28: a player without a prior submission (request as player1) has the   *)
(* timestamp 0: for a provider while not paused, the player's first        *)
(* submitPlayerScore (findMatch as player1) fails with CooldownActive      *)
(* exactly when now < cooldownSeconds; at now >= cooldownSeconds the       *)
(* cooldown check admits it.                                               *)
C28_ImplicitZeroTimestamp ==
    [][\A p \in Players :
         /\ ( /\ last'.op = "submitPlayerScore" /\ last'.args[1] = p
              /\ ~HasSubmitted(p) /\ isProvider[last'.caller] /\ ~paused )
              => /\ lastSubmissionTimestamp[p] = 0
                 /\ last'.err = "CooldownActive" <=> now < cooldownSeconds
                 /\ now >= cooldownSeconds => checkSubmissionCooldown(p) = "ok"
         /\ ( /\ last'.op = "findMatch" /\ last'.args[1] = p
              /\ ~HasRequested(p) /\ isProvider[last'.caller] /\ ~paused )
              => /\ lastRequestTimestamp[p] = 0
                 /\ last'.err = "CooldownActive" <=> now < cooldownSeconds
                 /\ now >= cooldownSeconds => checkRequestCooldown(p) = "ok"]_vars

(* A player's first request as player1 is rejected by the cooldown at a    *)
(* time after deployment but before cooldownSeconds, although the player   *)
(* never requested a match.                                                *)
C28_Witness ==
    \E p \in Players :
        /\ last.op = "findMatch" /\ last.args[1] = p
        /\ ~HasRequested(p)
        /\ now > 0
        /\ now < cooldownSeconds
        /\ last.err = "CooldownActive"

(* --------------------------- batch id range ---------------------------- *)
(* C29: every stored submission and the context of every stored request    *)
(* carries a batch id between 1 and currentBatchId: nothing is recorded    *)
(* for batch 0 or for a batch not yet opened.                              *)
C29_BatchIdRange ==
    /\ \A b \in BatchIds, p \in Players :
           batchSubmissions[b][p] # EmptySubmission
               => (1 <= b /\ b <= currentBatchId)
    /\ \A r \in RequestIds :
           Stored(r) => /\ 1 <= decryptionContexts[r].batchId
                        /\ decryptionContexts[r].batchId <= currentBatchId
    /\ (last.op = "findMatch" /\ last.err = "ok") => currentBatchId >= 1

(* Submissions and requests exist for batch 1 and for batch 2.             *)
C29_Witness ==
    /\ currentBatchId = 2
    /\ \E p \in Players : SubmittedIn(1, p)
    /\ \E p \in Players : SubmittedIn(2, p)
    /\ Stored(1) /\ decryptionContexts[1].batchId = 1
    /\ Stored(2) /\ decryptionContexts[2].batchId = 2

(* ------------------------ callback and roles --------------------------- *)
(* C30: the outcome of myCallback depends on neither the caller nor the    *)
(* roles: the error of every callback is the one the replay, commitment    *)
(* and proof checks give for the request id and the proof verdict; for a   *)
(* pending request a callback whose proof verifies finalizes it and one    *)
(* whose proof does not verify fails with InvalidProof, for every caller.  *)
C30_CallbackIgnoresCaller ==
    [][\A r \in RequestIds :
         IsCallback(last', r) =>
           /\ last'.err = CallbackError(r, last'.args[3])
           /\ Pending(r) =>
                /\ last'.args[3] => (last'.err = "ok" /\ decryptionContexts'[r].processed)
                /\ ~last'.args[3] => last'.err = "InvalidProof"]_vars

(* The provider that was added has been removed again; its callback with a *)
(* valid proof finalizes the request.                                      *)
C30_Witness ==
    \E r \in RequestIds :
        /\ IsCallback(last, r)
        /\ last.caller = Prov
        /\ ~isProvider[Prov]
        /\ last.args[3]
        /\ last.err = "ok"
        /\ decryptionContexts[r].processed

====
